---- MODULE Spec2Model ----
(***************************************************************************)
(* Tic-tac-toe turn engine of src/Application.cpp (namespace ClassGame).   *)
(*                                                                         *)
(* One state of the model is the program's state between two UI events.    *)
(* ImGui delivers at most one button activation per frame, so a step is    *)
(* one of: a click on an enabled cell (with the embedded AI reply), the    *)
(* Reset button, or the "Play vs AI (O)" checkbox.                         *)
(*                                                                         *)
(* Cells are numbered 0..8 as in the source (idx = r*3 + c); marks are     *)
(* 0 = empty, 1 = X, 2 = O.                                                *)
(***************************************************************************)
EXTENDS Integers, Sequences, FiniteSets

VARIABLES
    board,          \* static std::array<int, 9> board
    currentPlayer,  \* static int currentPlayer
    gameOver,       \* static bool gameOver
    winner,         \* static int winner
    aiEnabled,      \* static bool aiEnabled
    \* history variables: they record what the last step did and are never
    \* read by the program's operations
    lastOp,         \* "start", "click", "reset" or "toggle"
    lastIdx,        \* the cell clicked by the last step, -1 if it was no click
    pre,            \* the program state before the last step
    aiBranch,       \* the branch AIMove took in the last step, "none" if it did not run
    aiIn,           \* the board AIMove was entered with in the last step
    ret             \* the function the evaluator harness called last and the value
                    \* it returned; [fn |-> "none", val |-> 0] throughout a game

vars == <<board, currentPlayer, gameOver, winner, aiEnabled,
          lastOp, lastIdx, pre, aiBranch, aiIn, ret>>

Cells == 0..8

Marks == {1, 2}

EmptyBoard == [i \in Cells |-> 0]

\* mutant of WINS: the columns are listed before the rows
WINS_ColumnsFirst == << <<0, 3, 6>>, <<1, 4, 7>>, <<2, 5, 8>>,
                        <<0, 1, 2>>, <<3, 4, 5>>, <<6, 7, 8>>,
                        <<0, 4, 8>>, <<2, 4, 6>> >>

\* static const int WINS[8][3]
WINS == << <<0, 1, 2>>, <<3, 4, 5>>, <<6, 7, 8>>,
           <<0, 3, 6>>, <<1, 4, 7>>, <<2, 5, 8>>,
           <<0, 4, 8>>, <<2, 4, 6>> >>

-----------------------------------------------------------------------------
(* Rule evaluator *)

\* the loop of CheckWinner over WINS[k..n] with the full test of line 89
RECURSIVE ScanWinner(_, _, _)
ScanWinner(b, k, n) ==
    IF k > n THEN 0
    ELSE LET line == WINS[k]
             a == b[line[1]]
             bb == b[line[2]]
             c == b[line[3]]
         IN IF a # 0 /\ a = bb /\ bb = c THEN a
            ELSE ScanWinner(b, k + 1, n)

\* the same loop with the test "a != 0 && a == b" (third cell not compared)
RECURSIVE ScanWinnerTwoEqual(_, _, _)
ScanWinnerTwoEqual(b, k, n) ==
    IF k > n THEN 0
    ELSE LET line == WINS[k]
             a == b[line[1]]
             bb == b[line[2]]
         IN IF a # 0 /\ a = bb THEN a
            ELSE ScanWinnerTwoEqual(b, k + 1, n)

\* mutant of CheckWinner: the loop stops after the three rows
CheckWinner_RowsOnly(b) == ScanWinner(b, 1, 3)

\* mutant of CheckWinner: the third cell of a line is not compared
CheckWinner_TwoEqual(b) == ScanWinnerTwoEqual(b, 1, Len(WINS))

\* mutant of CheckWinner: the loop starts at the second line
CheckWinner_SkipsFirstLine(b) == ScanWinner(b, 2, Len(WINS))

CheckWinner(b) == ScanWinner(b, 1, Len(WINS))

\* mutant of CheckDraw: the winner is not looked at
CheckDraw_FullOnly(b) ==
    IF \E i \in Cells : b[i] = 0 THEN FALSE
    ELSE TRUE

\* mutant of CheckDraw: the scan tests v != 0 instead of v == 0
CheckDraw_InvertedScan(b) ==
    IF CheckWinner(b) # 0 THEN FALSE
    ELSE IF \E i \in Cells : b[i] # 0 THEN FALSE
    ELSE TRUE

\* mutant of CheckDraw: the scan for an empty cell is missing
CheckDraw_NoEmptyScan(b) ==
    IF CheckWinner(b) # 0 THEN FALSE ELSE TRUE

CheckDraw(b) ==
    IF CheckWinner(b) # 0 THEN FALSE
    ELSE IF \E i \in Cells : b[i] = 0 THEN FALSE
    ELSE TRUE

-----------------------------------------------------------------------------
(* Opponent heuristic *)

\* (x == y) used as an int
BoolInt(p) == IF p THEN 1 ELSE 0

\* the loop of FindImmediateMove from line k on; moveOut is the reference
\* argument, left as it was when no line qualifies
RECURSIVE ScanImmediate(_, _, _, _)
ScanImmediate(b, target, moveOut, k) ==
    IF k > Len(WINS) THEN [ret |-> FALSE, moveOut |-> moveOut]
    ELSE LET a == WINS[k][1]
             bb == WINS[k][2]
             c == WINS[k][3]
             cntT == BoolInt(b[a] = target) + BoolInt(b[bb] = target)
                        + BoolInt(b[c] = target)
             cntE == BoolInt(b[a] = 0) + BoolInt(b[bb] = 0) + BoolInt(b[c] = 0)
         IN IF cntT = 2 /\ cntE = 1
            THEN IF b[a] = 0 THEN [ret |-> TRUE, moveOut |-> a]
                 ELSE IF b[bb] = 0 THEN [ret |-> TRUE, moveOut |-> bb]
                 ELSE IF b[c] = 0 THEN [ret |-> TRUE, moveOut |-> c]
                 ELSE ScanImmediate(b, target, moveOut, k + 1)
            ELSE ScanImmediate(b, target, moveOut, k + 1)

FindImmediateMove(b, target, moveOut) == ScanImmediate(b, target, moveOut, 1)

\* std::vector<int> empty, filled for i = from..8 in increasing order
RECURSIVE EmptyFrom(_, _)
EmptyFrom(b, from) ==
    IF from > 8 THEN << >>
    ELSE IF b[from] = 0 THEN <<from>> \o EmptyFrom(b, from + 1)
    ELSE EmptyFrom(b, from + 1)

EmptyCells(b) == EmptyFrom(b, 0)

\* mutant of Dist: the upper end is never returned
Dist_SkipsLast(lo, hi) == lo..(hi - 1)

\* the values std::uniform_int_distribution<int>(lo, hi) can return
Dist(lo, hi) == lo..hi

\* mutant of AIFinish: "if (!gameOver) currentPlayer = 1" is missing
AIFinish_NoHandBack(st, b2, branch) ==
    LET w == CheckWinner(b2)
        go == (w # 0) \/ CheckDraw(b2)
    IN [board |-> b2, winner |-> w, gameOver |-> go,
        currentPlayer |-> st.currentPlayer,
        branch |-> branch]

\* lines 132-134 of AIMove, applied to the board b2 the branch produced
AIFinish(st, b2, branch) ==
    LET w == CheckWinner(b2)
        go == (w # 0) \/ CheckDraw(b2)
    IN [board |-> b2, winner |-> w, gameOver |-> go,
        currentPlayer |-> IF ~go THEN 1 ELSE st.currentPlayer,
        branch |-> branch]

\* the random branch of AIMove: one outcome per value the distribution can return
AIRandom(st) ==
    LET empty == EmptyCells(st.board)
    IN IF empty # << >>
       THEN { AIFinish(st, [st.board EXCEPT ![move] = 2], "random") :
                move \in {empty[r + 1] : r \in Dist(0, Len(empty) - 1)} }
       ELSE { AIFinish(st, st.board, "noop") }

\* mutant of AIMove: the block is tried before the win
AIMove_BlockFirst(st) ==
    IF st.gameOver
    THEN { [board |-> st.board, winner |-> st.winner, gameOver |-> st.gameOver,
            currentPlayer |-> st.currentPlayer, branch |-> "early"] }
    ELSE LET blk == FindImmediateMove(st.board, 1, -1)
             win == FindImmediateMove(st.board, 2, blk.moveOut)
         IN IF blk.ret
            THEN { AIFinish(st, [st.board EXCEPT ![move] = 2], "block") :
                     move \in {blk.moveOut} }
            ELSE IF win.ret
            THEN { AIFinish(st, [st.board EXCEPT ![move] = 2], "win") :
                     move \in {win.moveOut} }
            ELSE AIRandom(st)

\* mutant of AIMove: the block tier is missing
AIMove_NoBlock(st) ==
    IF st.gameOver
    THEN { [board |-> st.board, winner |-> st.winner, gameOver |-> st.gameOver,
            currentPlayer |-> st.currentPlayer, branch |-> "early"] }
    ELSE LET win == FindImmediateMove(st.board, 2, -1)
         IN IF win.ret
            THEN { AIFinish(st, [st.board EXCEPT ![move] = 2], "win") :
                     move \in {win.moveOut} }
            ELSE AIRandom(st)

\* AIMove on the state st = [board, currentPlayer, gameOver, winner]: the set
\* of states it can return with, each tagged with the branch taken
AIMove(st) ==
    IF st.gameOver
    THEN { [board |-> st.board, winner |-> st.winner, gameOver |-> st.gameOver,
            currentPlayer |-> st.currentPlayer, branch |-> "early"] }
    ELSE LET win == FindImmediateMove(st.board, 2, -1)
             blk == FindImmediateMove(st.board, 1, win.moveOut)
         IN IF win.ret
            THEN { AIFinish(st, [st.board EXCEPT ![move] = 2], "win") :
                     move \in {win.moveOut} }
            ELSE IF blk.ret
            THEN { AIFinish(st, [st.board EXCEPT ![move] = 2], "block") :
                     move \in {blk.moveOut} }
            ELSE AIRandom(st)

-----------------------------------------------------------------------------
(* Turn controller and UI events *)

\* mutant of disabled: an occupied cell stays clickable
disabled_IgnoresOccupied(idx) ==
    gameOver \/ (aiEnabled /\ currentPlayer # 1)

\* mutant of disabled: a finished game stays clickable
disabled_IgnoresGameOver(idx) ==
    board[idx] # 0 \/ (aiEnabled /\ currentPlayer # 1)

\* mutant of disabled: the turn is not looked at in AI mode
disabled_IgnoresTurn(idx) ==
    gameOver \/ board[idx] # 0

\* bool disabled of DrawBoardUI, line 165
disabled(idx) ==
    gameOver \/ board[idx] # 0 \/ (aiEnabled /\ currentPlayer # 1)

\* mutant of NextPlayer: the turn never leaves player 2
NextPlayer_Stuck(p) == IF p = 1 THEN 2 ELSE 2

\* mutant of NextPlayer: the turn is not toggled
NextPlayer_Same(p) == p

\* (currentPlayer == 1 ? 2 : 1), line 183
NextPlayer(p) == IF p = 1 THEN 2 ELSE 1

\* the program state as a record, kept in pre by every step
Snapshot ==
    [board |-> board, currentPlayer |-> currentPlayer, gameOver |-> gameOver,
     winner |-> winner, aiEnabled |-> aiEnabled]

\* mutant of ResetGame: the turn order is not reset
ResetGame_KeepsTurn ==
    /\ board' = EmptyBoard
    /\ currentPlayer' = currentPlayer
    /\ gameOver' = FALSE
    /\ winner' = 0

\* static void ResetGame()
ResetGame ==
    /\ board' = EmptyBoard
    /\ currentPlayer' = 1
    /\ gameOver' = FALSE
    /\ winner' = 0

\* GameStartUp: ResetGame on the statically initialised globals
Init ==
    /\ board = EmptyBoard
    /\ currentPlayer = 1
    /\ gameOver = FALSE
    /\ winner = 0
    /\ aiEnabled = TRUE
    /\ lastOp = "start"
    /\ lastIdx = -1
    /\ pre = [board |-> EmptyBoard, currentPlayer |-> 1, gameOver |-> FALSE,
              winner |-> 0, aiEnabled |-> TRUE]
    /\ aiBranch = "none"
    /\ aiIn = EmptyBoard
    /\ ret = [fn |-> "none", val |-> 0]

\* the body of "if (ImGui::Button(...))" in DrawBoardUI for an enabled cell idx
Click(idx) ==
    /\ ~disabled(idx)
    /\ LET b1 == [board EXCEPT ![idx] = currentPlayer]
           w1 == CheckWinner(b1)
           go1 == (w1 # 0) \/ CheckDraw(b1)
       IN IF ~go1
          THEN IF aiEnabled
               THEN \E st \in {[board |-> b1, currentPlayer |-> 2,
                                 gameOver |-> go1, winner |-> w1]} :
                    \E res \in AIMove(st) :
                        /\ board' = res.board
                        /\ winner' = res.winner
                        /\ gameOver' = res.gameOver
                        /\ currentPlayer' = res.currentPlayer
                        /\ aiBranch' = res.branch
                        /\ aiIn' = b1
               ELSE /\ board' = b1
                    /\ winner' = w1
                    /\ gameOver' = go1
                    /\ currentPlayer' = NextPlayer(currentPlayer)
                    /\ aiBranch' = "none"
                    /\ aiIn' = EmptyBoard
          ELSE /\ board' = b1
               /\ winner' = w1
               /\ gameOver' = go1
               /\ currentPlayer' = currentPlayer
               /\ aiBranch' = "none"
               /\ aiIn' = EmptyBoard
    /\ aiEnabled' = aiEnabled
    /\ lastOp' = "click"
    /\ lastIdx' = idx
    /\ pre' = Snapshot
    /\ ret' = ret

\* if (ImGui::Button("Reset")) ResetGame();
Reset ==
    /\ ResetGame
    /\ aiEnabled' = aiEnabled
    /\ lastOp' = "reset"
    /\ lastIdx' = -1
    /\ pre' = Snapshot
    /\ aiBranch' = "none"
    /\ aiIn' = EmptyBoard
    /\ ret' = ret

\* ImGui::Checkbox("Play vs AI (O)", &aiEnabled) activated
ToggleAI ==
    /\ aiEnabled' = ~aiEnabled
    /\ UNCHANGED <<board, currentPlayer, gameOver, winner>>
    /\ lastOp' = "toggle"
    /\ lastIdx' = -1
    /\ pre' = Snapshot
    /\ aiBranch' = "none"
    /\ aiIn' = EmptyBoard
    /\ ret' = ret

ClickAny == \E idx \in Cells : Click(idx)

Next ==
    \/ ClickAny
    \/ Reset
    \/ ToggleAI

Spec == Init /\ [][Next]_vars

-----------------------------------------------------------------------------
(* A game played without Reset and without the AI-mode checkbox *)

\* a fresh game in either mode (the checkbox may have been used on the
\* empty board before the first click)
InitPlay ==
    /\ board = EmptyBoard
    /\ currentPlayer = 1
    /\ gameOver = FALSE
    /\ winner = 0
    /\ aiEnabled \in BOOLEAN
    /\ lastOp = "start"
    /\ lastIdx = -1
    /\ pre = [board |-> EmptyBoard, currentPlayer |-> 1, gameOver |-> FALSE,
              winner |-> 0, aiEnabled |-> aiEnabled]
    /\ aiBranch = "none"
    /\ aiIn = EmptyBoard
    /\ ret = [fn |-> "none", val |-> 0]

\* clicks only, and a click is made whenever some cell stays enabled
SpecPlay == InitPlay /\ [][ClickAny]_vars /\ WF_vars(ClickAny)

-----------------------------------------------------------------------------
(* Evaluator harness: CheckWinner and CheckDraw called on an arbitrary board *)

InitEval ==
    /\ board \in [Cells -> 0..2]
    /\ currentPlayer = 1
    /\ gameOver = FALSE
    /\ winner = 0
    /\ aiEnabled = TRUE
    /\ lastOp = "start"
    /\ lastIdx = -1
    /\ pre = [board |-> EmptyBoard, currentPlayer |-> 1, gameOver |-> FALSE,
              winner |-> 0, aiEnabled |-> TRUE]
    /\ aiBranch = "none"
    /\ aiIn = EmptyBoard
    /\ ret = [fn |-> "none", val |-> 0]

\* a call of CheckWinner() on the board
CallCheckWinner ==
    /\ ret' = [fn |-> "CheckWinner", val |-> CheckWinner(board)]
    /\ UNCHANGED <<board, currentPlayer, gameOver, winner, aiEnabled,
                   lastOp, lastIdx, pre, aiBranch, aiIn>>

\* a call of CheckDraw() on the board
CallCheckDraw ==
    /\ ret' = [fn |-> "CheckDraw", val |-> CheckDraw(board)]
    /\ UNCHANGED <<board, currentPlayer, gameOver, winner, aiEnabled,
                   lastOp, lastIdx, pre, aiBranch, aiIn>>

NextEval ==
    \/ CallCheckWinner
    \/ CallCheckDraw

SpecEval == InitEval /\ [][NextEval]_vars

-----------------------------------------------------------------------------
(* Vocabulary of the properties, written without the evaluator's operators *)

TypeOK ==
    /\ board \in [Cells -> 0..2]
    /\ currentPlayer \in Marks
    /\ gameOver \in BOOLEAN
    /\ winner \in 0..2
    /\ aiEnabled \in BOOLEAN

LineSets == { {0, 1, 2}, {3, 4, 5}, {6, 7, 8},
              {0, 3, 6}, {1, 4, 7}, {2, 5, 8},
              {0, 4, 8}, {2, 4, 6} }

\* some win line of b is uniformly m
HasLine(b, m) == \E L \in LineSets : \A i \in L : b[i] = m

Full(b) == \A i \in Cells : b[i] # 0

NumMarks(b) == Cardinality({i \in Cells : b[i] # 0})

\* the empty cells of b that complete a line holding exactly two m and one empty
Threats(b, m) ==
    { i \in Cells : /\ b[i] = 0
                    /\ \E L \in LineSets : /\ i \in L
                                           /\ \A j \in L \ {i} : b[j] = m }

-----------------------------------------------------------------------------
(* Claims *)

\* C1: between UI events, gameOver is true if and only if winner is not 0 or
\* all nine cells are non-empty.
C1_GameOverIff == gameOver <=> (winner # 0 \/ Full(board))

\* a draw: the game is over with no winner because the board is full
C1_Witness == gameOver /\ winner = 0 /\ Full(board) /\ lastOp = "click"

\* C2: every step other than Reset (click with its AI reply, toggle) leaves
\* every non-empty cell with the value it had.
C2_MarksKept ==
    [][lastOp' # "reset" =>
         \A i \in Cells : board[i] # 0 => board'[i] = board[i]]_vars

\* a click answered by the AI on a board that already held marks of both players
C2_Witness ==
    /\ lastOp = "click"
    /\ aiBranch \in {"win", "block", "random"}
    /\ \E i, j \in Cells : pre.board[i] = 1 /\ pre.board[j] = 2
    /\ NumMarks(board) = NumMarks(pre.board) + 2

\* C3: once gameOver is true no click is accepted, and board, currentPlayer,
\* winner and gameOver stay as they are under every step that is not Reset.
C3_FrozenWhenOver ==
    [][gameOver =>
         /\ lastOp' # "click"
         /\ lastOp' # "reset" =>
               UNCHANGED <<board, currentPlayer, winner, gameOver>>]_vars

\* the AI-mode checkbox was used on a finished game
C3_Witness == lastOp = "toggle" /\ pre.gameOver /\ gameOver /\ winner # 0

\* the final board of the scenario: X on 0,4,8,1,7 and O on 2,3,5,6
C4Board ==
    [i \in Cells |-> IF i \in {0, 4, 8, 1, 7} THEN 1 ELSE 2]

\* C4 as stated: the game in which X takes 0,4,8,1,7 and O takes 2,3,5,6
\* ends on the full board with gameOver true and no winner.
C4_Original == board = C4Board => (gameOver /\ winner = 0)

\* C4 as amended: whenever X holds 0,4,8,1,7 and O holds 2,3,5,6 the game is
\* over and X is the winner (column 1,4,7 and diagonal 0,4,8 are X).
C4_FullBoardXWins == board = C4Board => (gameOver /\ winner = 1)

\* the scenario's board, reached by alternating clicks in two-player mode
C4_Witness ==
    /\ board = C4Board
    /\ lastOp = "click"
    /\ ~aiEnabled
    /\ pre.currentPlayer = 1

\* the human's mark on mid ends the game: a line or a full board
Ended(mid) == HasLine(mid, 1) \/ HasLine(mid, 2) \/ Full(mid)

\* C5: with AI mode on, an accepted click places an X; if that does not end
\* the game exactly one O is added on an empty cell in the same step and the
\* turn is X's again unless the O ended the game; if the X ends the game no
\* O is placed.
C5_AIReply ==
    [][(lastOp' = "click" /\ aiEnabled) =>
         LET mid == [board EXCEPT ![lastIdx'] = 1]
         IN /\ board[lastIdx'] = 0
            /\ currentPlayer = 1
            /\ IF Ended(mid)
               THEN board' = mid
               ELSE /\ \E j \in Cells : /\ mid[j] = 0
                                        /\ board' = [mid EXCEPT ![j] = 2]
                    /\ NumMarks(board') = NumMarks(board) + 2
                    /\ ~gameOver' => currentPlayer' = 1]_vars

\* an X answered by an O, after which the game goes on with X to move
C5_Witness ==
    /\ lastOp = "click"
    /\ pre.aiEnabled
    /\ NumMarks(board) = NumMarks(pre.board) + 2
    /\ ~gameOver
    /\ currentPlayer = 1

\* C6: with AI mode off, an accepted click places exactly one mark, that of
\* currentPlayer, on the clicked empty cell; the turn toggles if the game is
\* not over afterwards and stays if it is.
C6_TwoPlayerClick ==
    [][(lastOp' = "click" /\ ~aiEnabled) =>
         /\ board[lastIdx'] = 0
         /\ board' = [board EXCEPT ![lastIdx'] = currentPlayer]
         /\ IF gameOver'
            THEN currentPlayer' = currentPlayer
            ELSE currentPlayer' = 3 - currentPlayer]_vars

\* player 2 clicked in two-player mode and the turn went back to player 1
C6_Witness ==
    /\ lastOp = "click"
    /\ ~pre.aiEnabled
    /\ pre.currentPlayer = 2
    /\ board[lastIdx] = 2
    /\ ~gameOver
    /\ currentPlayer = 1

\* C7: Reset from any state yields the initial game state (all cells empty,
\* currentPlayer 1, gameOver false, winner 0) and leaves aiEnabled as it was.
C7_ResetToInitial ==
    [][lastOp' = "reset" =>
         /\ board' = EmptyBoard
         /\ currentPlayer' = 1
         /\ gameOver' = FALSE
         /\ winner' = 0
         /\ aiEnabled' = aiEnabled]_vars

\* Reset of a game that player 2 had won in two-player mode
C7_Witness ==
    /\ lastOp = "reset"
    /\ pre.gameOver
    /\ pre.winner = 2
    /\ pre.currentPlayer = 2
    /\ ~pre.aiEnabled
    /\ board = EmptyBoard

\* C8: winner is not 0 only if some win line is uniformly the winner's mark.
C8_WinnerHasLine == winner # 0 => HasLine(board, winner)

\* the AI completed a line
C8_Witness == winner = 2 /\ HasLine(board, 2) /\ aiBranch = "win"

\* C9: when AIMove runs on a board with a line of two O and one empty cell,
\* it places O on the empty cell of such a line and the step ends with
\* winner 2 and gameOver true, whatever lines X has.
C9_AIWinsNow ==
    (aiBranch # "none" /\ Threats(aiIn, 2) # {}) =>
        /\ \E i \in Threats(aiIn, 2) : board = [aiIn EXCEPT ![i] = 2]
        /\ winner = 2
        /\ gameOver

\* AIMove ran on a board where both O and X had two in a line with the third empty
C9_Witness ==
    /\ aiBranch # "none"
    /\ Threats(aiIn, 2) # {}
    /\ Threats(aiIn, 1) # {}

\* C10: when AIMove runs on a board with no line of two O and one empty cell
\* but with a line of two X and one empty cell, it places O on the empty cell
\* of such an X line.
C10_AIBlocks ==
    (aiBranch # "none" /\ Threats(aiIn, 2) = {} /\ Threats(aiIn, 1) # {}) =>
        \E i \in Threats(aiIn, 1) : board = [aiIn EXCEPT ![i] = 2]

\* AIMove ran on a board where only X had two in a line with the third empty
C10_Witness ==
    /\ aiBranch # "none"
    /\ Threats(aiIn, 2) = {}
    /\ Threats(aiIn, 1) # {}
    /\ board # aiIn

\* the state AIMove was entered with in the last step that called it
AIEntry ==
    [board |-> aiIn, currentPlayer |-> 2, gameOver |-> FALSE, winner |-> 0]

EmptySet(b) == {i \in Cells : b[i] = 0}

\* C11: every call of AIMove finds an empty cell and places exactly one O on
\* a cell that was empty (the early return and the zero-empty-cell branch
\* are never taken); when neither a win nor a block applies, the cells the
\* AI may choose are exactly the empty cells.
C11_AIAlwaysMoves ==
    aiBranch # "none" =>
        /\ aiBranch \in {"win", "block", "random"}
        /\ EmptySet(aiIn) # {}
        /\ \E i \in EmptySet(aiIn) : board = [aiIn EXCEPT ![i] = 2]
        /\ (Threats(aiIn, 2) = {} /\ Threats(aiIn, 1) = {}) =>
              /\ aiBranch = "random"
              /\ {r.board : r \in AIMove(AIEntry)} =
                     {[aiIn EXCEPT ![j] = 2] : j \in EmptySet(aiIn)}

\* the AI chose at random among six empty cells
C11_Witness ==
    /\ aiBranch = "random"
    /\ NumMarks(aiIn) = 3
    /\ NumMarks(board) = 4

\* the clicks of the scenario
C12Clicks == <<0, 4, 1, 5, 2>>

\* the board after the first k clicks of the scenario: X on the odd clicks
C12Board(k) ==
    [i \in Cells |->
        IF \E j \in 1..k : C12Clicks[j] = i /\ j % 2 = 1 THEN 1
        ELSE IF \E j \in 1..k : C12Clicks[j] = i THEN 2
        ELSE 0]

\* the program state the scenario expects after its first k clicks
C12State(k) ==
    [board |-> C12Board(k),
     currentPlayer |-> IF k \in {1, 3} THEN 2 ELSE 1,
     gameOver |-> (k = 5),
     winner |-> IF k = 5 THEN 1 ELSE 0,
     aiEnabled |-> FALSE]

\* C12: in two-player mode from a fresh game the clicks 0, 4, 1, 5, 2 are all
\* accepted, place X, O, X, O, X, leave the game running after each of the
\* first four and end it with winner 1 and gameOver true.
C12_TopRowScenario ==
    \A k \in 1..5 :
        /\ Snapshot = C12State(k - 1) => ~disabled(C12Clicks[k])
        /\ (lastOp = "click" /\ pre = C12State(k - 1) /\ lastIdx = C12Clicks[k])
              => Snapshot = C12State(k)

\* the fifth click of the scenario was made
C12_Witness ==
    /\ lastOp = "click"
    /\ pre = C12State(4)
    /\ lastIdx = 2
    /\ winner = 1
    /\ gameOver

\* C13: while AI mode is on, a click is accepted only when currentPlayer is 1,
\* the cell is empty and the game is not over, and it places an X; an O
\* appears in AI mode only on a cell AIMove found empty.
C13_HumanIsX ==
    [][(lastOp' = "click" /\ aiEnabled) =>
         /\ currentPlayer = 1
         /\ board[lastIdx'] = 0
         /\ ~gameOver
         /\ board'[lastIdx'] = 1
         /\ \A i \in Cells :
               (board[i] # 2 /\ board'[i] = 2) =>
                   /\ aiBranch' \in {"win", "block", "random"}
                   /\ aiIn' = [board EXCEPT ![lastIdx'] = 1]
                   /\ aiIn'[i] = 0]_vars

\* a board only two-player play produces (O left X's row 0,1 open)
C13Board ==
    [i \in Cells |-> IF i \in {0, 1} THEN 1 ELSE IF i \in {3, 4} THEN 2 ELSE 0]

\* AI mode was switched on in the middle of a two-player game and X clicked
C13_Witness ==
    /\ lastOp = "click"
    /\ pre.aiEnabled
    /\ pre.board = C13Board
    /\ board[lastIdx] = 1

\* the win lines in the order rows, columns, diagonals
LineOrder == << {0, 1, 2}, {3, 4, 5}, {6, 7, 8},
                {0, 3, 6}, {1, 4, 7}, {2, 5, 8},
                {0, 4, 8}, {2, 4, 6} >>

\* line k of b is uniform and non-empty
Uniform(b, k) == \E m \in Marks : \A i \in LineOrder[k] : b[i] = m

\* the mark on the first uniform line of b, 0 if there is none
FirstLineMark(b) ==
    IF \E k \in 1..8 : Uniform(b, k)
    THEN LET k == CHOOSE k \in 1..8 :
                      Uniform(b, k) /\ \A j \in 1..(k - 1) : ~Uniform(b, j)
         IN b[CHOOSE i \in LineOrder[k] : TRUE]
    ELSE 0

\* the board with line L set to m and every other cell empty
LineOnly(L, m) == [i \in Cells |-> IF i \in L THEN m ELSE 0]

\* C14 as stated: over every board in {0,1,2}^9, CheckWinner returns M
\* whenever some win line is uniformly M, and 0 when no line is uniform.
C14_Original ==
    ret.fn = "CheckWinner" =>
        /\ \A m \in Marks : HasLine(board, m) => ret.val = m
        /\ (~HasLine(board, 1) /\ ~HasLine(board, 2)) => ret.val = 0

\* C14 as amended: over every board in {0,1,2}^9, CheckWinner returns 0 when
\* no line is uniform and non-empty, M when some line is uniformly M and no
\* line is uniformly the other mark, and the mark of the first uniform line
\* (rows, columns, diagonals) when lines of both marks exist; a board with
\* one line set to M and all else empty yields M.
C14_CheckWinner ==
    ret.fn = "CheckWinner" =>
        /\ (~HasLine(board, 1) /\ ~HasLine(board, 2)) => ret.val = 0
        /\ \A m \in Marks :
              (HasLine(board, m) /\ ~HasLine(board, 3 - m)) => ret.val = m
        /\ ret.val = FirstLineMark(board)
        /\ \A L \in LineSets : \A m \in Marks :
              board = LineOnly(L, m) => ret.val = m

\* CheckWinner was called on a board holding an X line and an O line
C14_Witness ==
    /\ ret.fn = "CheckWinner"
    /\ HasLine(board, 1)
    /\ HasLine(board, 2)
    /\ ret.val = 2

\* C15: over every board in {0,1,2}^9, CheckDraw returns true if and only if
\* CheckWinner returns 0 and no cell is empty; a full board with no uniform
\* line yields CheckDraw true and CheckWinner 0.
C15_CheckDraw ==
    ret.fn = "CheckDraw" =>
        /\ ret.val <=> (CheckWinner(board) = 0 /\ Full(board))
        /\ ret.val <=> (~HasLine(board, 1) /\ ~HasLine(board, 2) /\ Full(board))
        /\ (Full(board) /\ ~HasLine(board, 1) /\ ~HasLine(board, 2)) =>
              (ret.val = TRUE /\ CheckWinner(board) = 0)

\* CheckDraw was called on a full board without a uniform line
C15_Witness ==
    /\ ret.fn = "CheckDraw"
    /\ ret.val = TRUE
    /\ Full(board)

\* line k of b holds exactly two m and one empty cell
Qualifies(b, m, k) ==
    /\ Cardinality({i \in LineOrder[k] : b[i] = m}) = 2
    /\ Cardinality({i \in LineOrder[k] : b[i] = 0}) = 1

\* the empty cell of the first line of b that qualifies for m
FirstChoice(b, m) ==
    LET k == CHOOSE k \in 1..8 :
                 Qualifies(b, m, k) /\ \A j \in 1..(k - 1) : ~Qualifies(b, m, j)
    IN CHOOSE i \in LineOrder[k] : b[i] = 0

\* C16: in the win tier and in the block tier the AI takes the empty cell of
\* the first qualifying line in the order rows, columns, diagonals, so the
\* choice is a function of the board.
C16_FirstLineFirst ==
    aiBranch # "none" =>
        /\ Threats(aiIn, 2) # {} =>
              board = [aiIn EXCEPT ![FirstChoice(aiIn, 2)] = 2]
        /\ (Threats(aiIn, 2) = {} /\ Threats(aiIn, 1) # {}) =>
              board = [aiIn EXCEPT ![FirstChoice(aiIn, 1)] = 2]

\* the AI had to choose between two cells that each block an X line
C16_Witness ==
    /\ aiBranch = "block"
    /\ Cardinality(Threats(aiIn, 1)) >= 2
    /\ board = [aiIn EXCEPT ![FirstChoice(aiIn, 1)] = 2]

\* C17: in every reachable state where the game is not over, some empty cell
\* accepts a click.
C17_Progress == ~gameOver => \E i \in Cells : ~disabled(i)

NumOf(b, m) == Cardinality({i \in Cells : b[i] = m})

\* C18: the number of X marks minus the number of O marks is 0 or 1, and
\* while the game is not over currentPlayer is 1 exactly when the counts are
\* equal and 2 exactly when X has one more mark.
C18_Parity ==
    LET d == NumOf(board, 1) - NumOf(board, 2)
    IN /\ d \in {0, 1}
       /\ ~gameOver => /\ currentPlayer = 1 <=> d = 0
                       /\ currentPlayer = 2 <=> d = 1

\* AI mode was switched on while it was player 2's turn in a two-player game
C18_Witness ==
    /\ lastOp = "toggle"
    /\ aiEnabled
    /\ ~gameOver
    /\ currentPlayer = 2
    /\ NumOf(board, 1) = NumOf(board, 2) + 1
    /\ NumOf(board, 2) >= 1

\* the mark the last click step placed last: the AI's O if AIMove ran,
\* the clicked cell's mark otherwise
LastMark == IF aiBranch # "none" THEN 2 ELSE board[lastIdx]

\* C19: no reachable board holds both a uniform X line and a uniform O line,
\* and a winner set by a step is the mark that step placed last.
C19_OneWinner ==
    /\ ~(HasLine(board, 1) /\ HasLine(board, 2))
    /\ winner # 0 => /\ HasLine(board, winner)
                     /\ ~HasLine(board, 3 - winner)
    /\ (lastOp = "click" /\ winner # 0) => winner = LastMark

\* player 2 completed a line by a click in two-player mode
C19_Witness ==
    /\ lastOp = "click"
    /\ aiBranch = "none"
    /\ winner = 2
    /\ board[lastIdx] = 2
    /\ HasLine(board, 2)

\* C20: in a game without Reset and without the AI-mode checkbox, if clicks
\* on enabled cells keep being made, gameOver eventually becomes true; the
\* game is over by the ninth mark, hence by the ninth click in two-player
\* mode and by the fifth click (the fifth X) in AI mode.
C20_Terminates ==
    /\ <>gameOver
    /\ [](~gameOver => NumMarks(board) < 9)
    /\ []((aiEnabled /\ ~gameOver) => NumOf(board, 1) < 5)
    /\ [](aiEnabled => NumOf(board, 1) <= 5)

\* a two-player game that took all nine clicks
C20_Witness ==
    /\ gameOver
    /\ ~aiEnabled
    /\ lastOp = "click"
    /\ NumMarks(board) = 9
    /\ winner = 0

====
